---- MODULE Spec2Model ----
(***************************************************************************)
(* A model of the fifteen_puzzle crate: the Tile capability for u8, the    *)
(* Board (shuffle-and-test generation, slides, solved detection), the Game *)
(* wrapper (move counter and two-state progress machine) and the input     *)
(* adapter Operation::get_next.                                            *)
(*                                                                         *)
(* Arrays are functions over 0..15 (row-major, as in the source), a tile   *)
(* is a u8 (0 is the blank).                                               *)
(***************************************************************************)
EXTENDS Integers, Sequences, FiniteSets, TLC

VARIABLES
    pc,             \* where the owner of the game is: "idle", "start", "shuffle", "play"
    array,          \* Board.array (in "start"/"shuffle": the local array of Board::new)
    blank_idx,      \* Board.blank_idx
    current_state,  \* Game.current_state
    move_count,     \* Game.move_count
    start_array,    \* the array the Board was constructed with
    calls,          \* number of Game::process_operation calls made so far
    swaps,          \* number of those calls in which the array changed
    last_op,        \* argument of the latest Game::process_operation call
    last_ret,       \* what Board::process_operation returned in that call
    reader,         \* the items the reader passed to get_next has yet to yield
    gn_pc,          \* position inside get_next: "idle", "read", "match", "returned"
    gn_item,        \* what reader.bytes().next() gave in the current iteration
    gn_result,      \* the value get_next returned
    gn_consumed,    \* number of items get_next has taken from the reader
    input,          \* everything the reader held when it was created
    main_pc,        \* position inside main: "idle", "new", "loop", "enable",
                    \* "get_next", "process", "exited"
    raw,            \* the terminal is in raw mode
    restore,        \* the restore of cooked mode since raw mode was last entered:
                    \* "none" (not entered), "pending", "ok", "failed"
    stdin_result,   \* the value get_next_from_stdin returned
    outcome,        \* what main returned: "running", "Ok", "ErrExit", "ErrOther"
    congrats,       \* the congratulation message has been printed
    congrats_moves  \* the move count that message reported

gameVars == <<pc, array, blank_idx, current_state, move_count, start_array,
              calls, swaps, last_op, last_ret>>
readerVars == <<reader, gn_pc, gn_item, gn_result, gn_consumed, input>>
mainVars == <<main_pc, raw, restore, stdin_result, outcome, congrats, congrats_moves>>
vars == <<pc, array, blank_idx, current_state, move_count, start_array,
          calls, swaps, last_op, last_ret,
          reader, gn_pc, gn_item, gn_result, gn_consumed, input,
          main_pc, raw, restore, stdin_result, outcome, congrats, congrats_moves>>

----------------------------------------------------------------------------
(* Bounds of the model *)

\* Game::process_operation calls explored per game
MaxCalls == 5
\* longest reader content handed to get_next
MaxLen == 3

----------------------------------------------------------------------------
(* Tile for u8 (main.rs) *)

ArrayLen == 16
Cells == 0 .. (ArrayLen - 1)
Operations == {"Up", "Down", "Left", "Right"}

is_blank(t) == t = 0

get_solved_pos(t) == IF is_blank(t) THEN 15 ELSE t - 1

----------------------------------------------------------------------------
(* Board (board.rs) *)

\* array.iter().position(Tile::is_blank).unwrap(): the first blank cell
position_blank(arr) ==
    CHOOSE i \in Cells : is_blank(arr[i]) /\ \A j \in 0 .. (i - 1) : ~is_blank(arr[j])

from_existing_array(arr) == [array |-> arr, blank_idx |-> position_blank(arr)]

inversions(arr) ==
    Cardinality({p \in Cells \X Cells :
                    /\ p[1] < p[2]
                    /\ get_solved_pos(arr[p[1]]) > get_solved_pos(arr[p[2]])})

\* is_solvable with the two cases joined by a conjunction
is_solvable_both_cases(arr, blank) ==
    LET pos_from_bottom == 4 - (blank \div 4)
        inv == inversions(arr)
    IN  /\ (pos_from_bottom % 2 = 0 /\ inv % 2 # 0)
        /\ (pos_from_bottom % 2 # 0 /\ inv % 2 = 0)

is_solvable(arr, blank) ==
    LET pos_from_bottom == 4 - (blank \div 4)
        inv == inversions(arr)
    IN  \/ (pos_from_bottom % 2 = 0 /\ inv % 2 # 0)
        \/ (pos_from_bottom % 2 # 0 /\ inv % 2 = 0)

\* swap_offset with the offsets of Up and Down exchanged
swap_offset_vertical_exchanged(operation) ==
    CASE operation = "Up" -> -4
      [] operation = "Down" -> 4
      [] operation = "Left" -> 1
      [] operation = "Right" -> -1

swap_offset(operation) ==
    CASE operation = "Up" -> 4
      [] operation = "Down" -> -4
      [] operation = "Left" -> 1
      [] operation = "Right" -> -1

\* <[T]>::swap
swap(arr, i, j) == [arr EXCEPT ![i] = arr[j], ![j] = arr[i]]

\* Board::process_operation with the two edge checks made after the swap
Board_process_operation_swap_first(arr, blank, operation) ==
    LET swap_idx == blank + swap_offset(operation)
        swapped == [array |-> swap(arr, blank, swap_idx), blank_idx |-> swap_idx]
    IN  IF swap_idx < 0 \/ swap_idx >= ArrayLen
          THEN [array |-> arr, blank_idx |-> blank, ret |-> FALSE]
        ELSE IF blank % 4 = 0 /\ blank = swap_idx + 1
          THEN [array |-> swapped.array, blank_idx |-> swapped.blank_idx, ret |-> FALSE]
        ELSE IF swap_idx % 4 = 0 /\ blank = swap_idx - 1
          THEN [array |-> swapped.array, blank_idx |-> swapped.blank_idx, ret |-> FALSE]
        ELSE [array |-> swapped.array, blank_idx |-> swapped.blank_idx, ret |-> TRUE]

\* Board::process_operation without the check of the left edge
Board_process_operation_no_left_edge(arr, blank, operation) ==
    LET swap_idx == blank + swap_offset(operation)
        unchanged == [array |-> arr, blank_idx |-> blank, ret |-> FALSE]
    IN  IF swap_idx < 0 \/ swap_idx >= ArrayLen
          THEN unchanged
        ELSE IF swap_idx % 4 = 0 /\ blank = swap_idx - 1
          THEN unchanged
        ELSE [array |-> swap(arr, blank, swap_idx), blank_idx |-> swap_idx, ret |-> TRUE]

\* Board::process_operation without the assignment to blank_idx
Board_process_operation_stale_blank(arr, blank, operation) ==
    LET swap_idx == blank + swap_offset(operation)
        unchanged == [array |-> arr, blank_idx |-> blank, ret |-> FALSE]
    IN  IF swap_idx < 0 \/ swap_idx >= ArrayLen
          THEN unchanged
        ELSE IF blank % 4 = 0 /\ blank = swap_idx + 1
          THEN unchanged
        ELSE IF swap_idx % 4 = 0 /\ blank = swap_idx - 1
          THEN unchanged
        ELSE [array |-> swap(arr, blank, swap_idx), blank_idx |-> blank, ret |-> TRUE]

\* Board::process_operation copying the tile into the blank cell without
\* writing the blank back
Board_process_operation_copy(arr, blank, operation) ==
    LET swap_idx == blank + swap_offset(operation)
        unchanged == [array |-> arr, blank_idx |-> blank, ret |-> FALSE]
    IN  IF swap_idx < 0 \/ swap_idx >= ArrayLen
          THEN unchanged
        ELSE IF blank % 4 = 0 /\ blank = swap_idx + 1
          THEN unchanged
        ELSE IF swap_idx % 4 = 0 /\ blank = swap_idx - 1
          THEN unchanged
        ELSE [array |-> [arr EXCEPT ![blank] = arr[swap_idx]],
              blank_idx |-> swap_idx, ret |-> TRUE]

\* Board::process_operation: the board after the call and the value returned
Board_process_operation(arr, blank, operation) ==
    LET swap_idx == blank + swap_offset(operation)
        unchanged == [array |-> arr, blank_idx |-> blank, ret |-> FALSE]
    IN  IF swap_idx < 0 \/ swap_idx >= ArrayLen
          THEN unchanged
        ELSE IF blank % 4 = 0 /\ blank = swap_idx + 1
          THEN unchanged
        ELSE IF swap_idx % 4 = 0 /\ blank = swap_idx - 1
          THEN unchanged
        ELSE [array |-> swap(arr, blank, swap_idx), blank_idx |-> swap_idx, ret |-> TRUE]

is_solved(arr) == \A idx \in Cells : idx = get_solved_pos(arr[idx])

----------------------------------------------------------------------------
(* Game (game.rs) *)

\* Game::process_operation with the solved check made before the operation
Game_process_operation_check_first(arr, blank, state, count, operation) ==
    LET b == Board_process_operation(arr, blank, operation)
        count1 == IF b.ret THEN count + 1 ELSE count
        state1 == IF is_solved(arr) THEN "Finished" ELSE state
    IN  [array |-> b.array, blank_idx |-> b.blank_idx, ret |-> b.ret,
         current_state |-> state1, move_count |-> count1]

\* Game::process_operation counting every call
Game_process_operation_counts_calls(arr, blank, state, count, operation) ==
    LET b == Board_process_operation(arr, blank, operation)
        count1 == count + 1
        state1 == IF is_solved(b.array) THEN "Finished" ELSE state
    IN  [array |-> b.array, blank_idx |-> b.blank_idx, ret |-> b.ret,
         current_state |-> state1, move_count |-> count1]

\* Game::process_operation with the solved check made only after a swap
Game_process_operation_check_on_swap(arr, blank, state, count, operation) ==
    LET b == Board_process_operation(arr, blank, operation)
        count1 == IF b.ret THEN count + 1 ELSE count
        state1 == IF b.ret /\ is_solved(b.array) THEN "Finished" ELSE state
    IN  [array |-> b.array, blank_idx |-> b.blank_idx, ret |-> b.ret,
         current_state |-> state1, move_count |-> count1]

\* Game::process_operation assigning the state on every call
Game_process_operation_assigns_state(arr, blank, state, count, operation) ==
    LET b == Board_process_operation(arr, blank, operation)
        count1 == IF b.ret THEN count + 1 ELSE count
        state1 == IF is_solved(b.array) THEN "Finished" ELSE "InProgress"
    IN  [array |-> b.array, blank_idx |-> b.blank_idx, ret |-> b.ret,
         current_state |-> state1, move_count |-> count1]

\* Game::process_operation on the fields of a game: the fields after the call
Game_process_operation(arr, blank, state, count, operation) ==
    LET b == Board_process_operation(arr, blank, operation)
        count1 == IF b.ret THEN count + 1 ELSE count
        state1 == IF is_solved(b.array) THEN "Finished" ELSE state
    IN  [array |-> b.array, blank_idx |-> b.blank_idx, ret |-> b.ret,
         current_state |-> state1, move_count |-> count1]

is_done == current_state = "Finished"

moves == move_count

----------------------------------------------------------------------------
(* Operation (operation.rs) *)

CharW == 119
CharA == 97
CharS == 115
CharD == 100
CharSemicolon == 59
CtrlC == 3

\* Operation::from_code with the operations of 'a' and 'd' exchanged
from_code_a_d_exchanged(code) ==
    CASE code = CharW -> "Up"
      [] code = CharA -> "Right"
      [] code = CharS -> "Down"
      [] code = CharD -> "Left"
      [] OTHER -> "None"

\* Operation::from_code on the code point of the char; "None" is Option::None
from_code(code) ==
    CASE code = CharW -> "Up"
      [] code = CharA -> "Left"
      [] code = CharS -> "Down"
      [] code = CharD -> "Right"
      [] OTHER -> "None"

\* what reader.bytes().next() gives: Some(Ok(byte)), Some(Err(e)) or None
SomeOk(byte) == [kind |-> "Ok", byte |-> byte]
SomeErr == [kind |-> "Err", byte |-> 0]
NoItem == [kind |-> "None", byte |-> 0]

\* reader.by_ref().bytes().next(): the item, and the reader after it
bytes_next(r) ==
    IF r = <<>>
      THEN [item |-> NoItem, reader |-> r, taken |-> 0]
      ELSE [item |-> Head(r), reader |-> Tail(r), taken |-> 1]

\* the body of the loop of get_next on the item read: where get_next is
\* afterwards and what it has returned ("none": nothing, it loops)
get_next_body(item) ==
    IF item.kind = "Ok"
      THEN IF item.byte = CtrlC
             THEN [pc |-> "returned", result |-> "Exit"]
           ELSE IF from_code(item.byte) # "None"
             THEN [pc |-> "returned", result |-> from_code(item.byte)]
           ELSE [pc |-> "read", result |-> "none"]
      ELSE [pc |-> "read", result |-> "none"]

----------------------------------------------------------------------------
(* The boards the model constructs *)

ArrayOf(t) == [i \in Cells |-> t[i + 1]]

\* (0..16).collect(): the array Board::new starts from
Identity == [i \in Cells |-> i]

SolvedArray == ArrayOf(<<1, 2, 3, 4, 5, 6, 7, 8, 9, 10, 11, 12, 13, 14, 15, 0>>)
TestArrayUnsolved == ArrayOf(<<2, 1, 3, 4, 5, 6, 7, 8, 9, 10, 11, 12, 13, 14, 15, 0>>)
TestArrayMiddle == ArrayOf(<<1, 2, 3, 4, 0, 6, 7, 8, 9, 10, 11, 12, 13, 14, 15, 5>>)
TestArrayEdge == ArrayOf(<<1, 2, 3, 0, 4, 6, 7, 8, 9, 10, 11, 12, 13, 14, 15, 5>>)

\* what array.shuffle can leave behind: the arrangements one exchange of two
\* cells away from the solved one (and the solved one itself)
ShuffleOutcomes == {swap(SolvedArray, i, j) : i, j \in Cells}

\* the well-formed arrays handed to from_existing_array: the arrays of the
\* crate's tests and one arrangement for every position of the blank
ExistingArrays ==
    {SolvedArray, TestArrayUnsolved, TestArrayMiddle, TestArrayEdge}
        \cup {swap(SolvedArray, i, 15) : i \in Cells}

----------------------------------------------------------------------------
(* Specification of the game: construction, then process_operation calls *)

ReaderIdle ==
    /\ reader = <<>>
    /\ gn_pc = "idle"
    /\ gn_item = NoItem
    /\ gn_result = "none"
    /\ gn_consumed = 0
    /\ input = <<>>

MainIdle ==
    /\ main_pc = "idle"
    /\ raw = FALSE
    /\ restore = "none"
    /\ stdin_result = "none"
    /\ outcome = "running"
    /\ congrats = FALSE
    /\ congrats_moves = 0

GameIdle ==
    /\ pc = "idle"
    /\ array = Identity
    /\ blank_idx = 0
    /\ current_state = "InProgress"
    /\ move_count = 0
    /\ start_array = Identity
    /\ calls = 0
    /\ swaps = 0
    /\ last_op = "none"
    /\ last_ret = FALSE

Init ==
    /\ pc = "start"
    /\ array = Identity
    /\ blank_idx = 0
    /\ current_state = "InProgress"
    /\ move_count = 0
    /\ start_array = Identity
    /\ calls = 0
    /\ swaps = 0
    /\ last_op = "none"
    /\ last_ret = FALSE
    /\ ReaderIdle
    /\ MainIdle

\* Game::with_board taking the state from the board
with_board_checks_solved(board) ==
    /\ array' = board.array
    /\ blank_idx' = board.blank_idx
    /\ start_array' = board.array
    /\ current_state' = IF is_solved(board.array) THEN "Finished" ELSE "InProgress"
    /\ move_count' = 0
    /\ pc' = "play"

\* Game::with_board on a board
with_board(board) ==
    /\ array' = board.array
    /\ blank_idx' = board.blank_idx
    /\ start_array' = board.array
    /\ current_state' = "InProgress"
    /\ move_count' = 0
    /\ pc' = "play"

\* Game::with_board(Board::from_existing_array(a))
GameWithBoard(a) ==
    /\ pc = "start"
    /\ with_board(from_existing_array(a))
    /\ UNCHANGED <<calls, swaps, last_op, last_ret>>
    /\ UNCHANGED readerVars

\* Game::new: one iteration of the loop of Board::new, and on acceptance the
\* rest of Board::new and Game::with_board
GameNew(a) ==
    /\ pc \in {"start", "shuffle"}
    /\ LET blank == position_blank(a)
       IN  IF is_solvable(a, blank)
             THEN with_board(from_existing_array(a))
             ELSE /\ array' = a
                  /\ pc' = "shuffle"
                  /\ UNCHANGED <<blank_idx, start_array, current_state, move_count>>
    /\ UNCHANGED <<calls, swaps, last_op, last_ret>>
    /\ UNCHANGED readerVars

\* a call game.process_operation(operation)
GameProcessOperation(operation) ==
    /\ pc = "play"
    /\ calls < MaxCalls
    /\ LET g == Game_process_operation(array, blank_idx, current_state,
                                        move_count, operation)
       IN  /\ array' = g.array
           /\ blank_idx' = g.blank_idx
           /\ current_state' = g.current_state
           /\ move_count' = g.move_count
           /\ last_ret' = g.ret
           /\ swaps' = IF g.array # array THEN swaps + 1 ELSE swaps
    /\ last_op' = operation
    /\ calls' = calls + 1
    /\ UNCHANGED <<pc, start_array>>
    /\ UNCHANGED readerVars

Next ==
    \/ \E a \in ExistingArrays : GameWithBoard(a) /\ UNCHANGED mainVars
    \/ \E a \in ShuffleOutcomes : GameNew(a) /\ UNCHANGED mainVars
    \/ \E operation \in Operations :
          GameProcessOperation(operation) /\ UNCHANGED mainVars

Spec == Init /\ [][Next]_vars

----------------------------------------------------------------------------
(* Specification of Game::new under a fair shuffle *)

NextNew ==
    \/ \E a \in ShuffleOutcomes : GameNew(a) /\ UNCHANGED mainVars
    \/ \E operation \in Operations :
          GameProcessOperation(operation) /\ UNCHANGED mainVars

\* a fair shuffle produces every arrangement again and again; these three
\* of them are enough for what follows
FairDraws == {SolvedArray, TestArrayUnsolved, swap(SolvedArray, 0, 15)}

FairShuffle == \A a \in FairDraws : WF_vars(GameNew(a) /\ UNCHANGED mainVars)

SpecNewFair == Init /\ [][NextNew]_vars /\ FairShuffle

----------------------------------------------------------------------------
(* Specification of get_next on a finite reader *)

Bytes == {CharW, CharA, CharS, CharD, CharSemicolon, CtrlC}
ReaderItems == {SomeOk(b) : b \in Bytes} \cup {SomeErr}

RECURSIVE SeqsUpTo(_, _)
SeqsUpTo(S, n) ==
    IF n = 0 THEN {<<>>}
    ELSE LET shorter == SeqsUpTo(S, n - 1)
         IN  shorter \cup {Append(q, x) : q \in shorter, x \in S}

InitReader ==
    /\ GameIdle
    /\ reader \in SeqsUpTo(ReaderItems, MaxLen)
    /\ gn_pc = "read"
    /\ gn_item = NoItem
    /\ gn_result = "none"
    /\ gn_consumed = 0
    /\ input = reader
    /\ MainIdle

\* the head of the loop: if let Some(Ok(byte)) = reader.by_ref().bytes().next()
GetNextRead ==
    /\ gn_pc = "read"
    /\ LET n == bytes_next(reader)
       IN  /\ gn_item' = n.item
           /\ reader' = n.reader
           /\ gn_consumed' = gn_consumed + n.taken
    /\ gn_pc' = "match"
    /\ UNCHANGED <<gn_result, input>>
    /\ UNCHANGED gameVars

\* the rest of the iteration
GetNextBody ==
    /\ gn_pc = "match"
    /\ LET b == get_next_body(gn_item)
       IN  /\ gn_pc' = b.pc
           /\ gn_result' = b.result
    /\ UNCHANGED <<reader, gn_item, gn_consumed, input>>
    /\ UNCHANGED gameVars

NextReader ==
    \/ GetNextRead /\ UNCHANGED mainVars
    \/ GetNextBody /\ UNCHANGED mainVars

SpecReader == InitReader /\ [][NextReader]_vars

\* the loop of get_next keeps running until it returns
SpecReaderFair == SpecReader /\ WF_vars(NextReader)

----------------------------------------------------------------------------
(* The program: main (main.rs) reading from stdin through get_next_from_stdin *)

\* the exit code of the process for what main returned: Ok(()) is success,
\* an Err is reported and is a failure
ExitCode(o) == IF o = "Ok" THEN 0 ELSE 1

\* get_next_from_stdin with the ? applied to the result of get_next, before
\* raw mode is disabled
get_next_from_stdin_returns_early(op, disable_ok, raw_after_failure) ==
    IF op = "Exit"
      THEN [result |-> op, restore |-> "pending", raw |-> TRUE]
    ELSE IF disable_ok
      THEN [result |-> op, restore |-> "ok", raw |-> FALSE]
    ELSE [result |-> "Other", restore |-> "failed", raw |-> raw_after_failure]

\* get_next_from_stdin after get_next has returned op: disable_raw_mode()
\* succeeds or fails (the mode the terminal is in after a failure is the
\* terminal's business), and its error replaces op
get_next_from_stdin_tail(op, disable_ok, raw_after_failure) ==
    IF disable_ok
      THEN [result |-> op, restore |-> "ok", raw |-> FALSE]
      ELSE [result |-> "Other", restore |-> "failed", raw |-> raw_after_failure]

InitMain ==
    /\ pc = "start"
    /\ array = Identity
    /\ blank_idx = 0
    /\ current_state = "InProgress"
    /\ move_count = 0
    /\ start_array = Identity
    /\ calls = 0
    /\ swaps = 0
    /\ last_op = "none"
    /\ last_ret = FALSE
    /\ reader = <<>>
    /\ input = <<>>
    /\ gn_pc = "idle"
    /\ gn_item = NoItem
    /\ gn_result = "none"
    /\ gn_consumed = 0
    /\ main_pc = "new"
    /\ raw = FALSE
    /\ restore = "none"
    /\ stdin_result = "none"
    /\ outcome = "running"
    /\ congrats = FALSE
    /\ congrats_moves = 0

\* let mut game = Game::new(): one iteration of the loop of Board::new
MainGameNew(a) ==
    /\ main_pc = "new"
    /\ GameNew(a)
    /\ main_pc' = IF pc' = "play" THEN "loop" ELSE "new"
    /\ UNCHANGED <<raw, restore, stdin_result, outcome, congrats, congrats_moves>>

\* the head of the loop of main: print the game; when it is done print the
\* congratulation and return Ok(()), else print the prompt
MainLoopTop ==
    /\ main_pc = "loop"
    /\ IF is_done
         THEN /\ congrats' = TRUE
              /\ congrats_moves' = moves
              /\ outcome' = "Ok"
              /\ main_pc' = "exited"
         ELSE /\ main_pc' = "enable"
              /\ UNCHANGED <<congrats, congrats_moves, outcome>>
    /\ UNCHANGED <<raw, restore, stdin_result>>
    /\ UNCHANGED gameVars
    /\ UNCHANGED readerVars

\* get_next_from_stdin: enable_raw_mode()?, then the call of get_next
EnableRawMode(enable_ok) ==
    /\ main_pc = "enable"
    /\ IF enable_ok
         THEN /\ raw' = TRUE
              /\ restore' = "pending"
              /\ main_pc' = "get_next"
              /\ gn_pc' = "read"
              /\ gn_result' = "none"
              /\ UNCHANGED stdin_result
         ELSE /\ stdin_result' = "Other"
              /\ main_pc' = "process"
              /\ UNCHANGED <<raw, restore, gn_pc, gn_result>>
    /\ UNCHANGED <<outcome, congrats, congrats_moves>>
    /\ UNCHANGED <<reader, gn_item, gn_consumed, input>>
    /\ UNCHANGED gameVars

\* stdin, the reader of get_next_from_stdin: one more item (a key pressed,
\* or a read error) becomes available to the next reads
StdinArrives(item) ==
    /\ main_pc = "get_next"
    /\ gn_pc = "read"
    /\ Len(input) < MaxLen
    /\ reader' = Append(reader, item)
    /\ input' = Append(input, item)
    /\ UNCHANGED <<gn_pc, gn_item, gn_result, gn_consumed>>
    /\ UNCHANGED mainVars
    /\ UNCHANGED gameVars

\* get_next on stdin
MainGetNextRead ==
    /\ main_pc = "get_next"
    /\ GetNextRead
    /\ UNCHANGED mainVars

MainGetNextBody ==
    /\ main_pc = "get_next"
    /\ GetNextBody
    /\ UNCHANGED mainVars

\* get_next_from_stdin once get_next has returned: disable_raw_mode()?; op
DisableRawMode(disable_ok, raw_after_failure) ==
    /\ main_pc = "get_next"
    /\ gn_pc = "returned"
    /\ LET t == get_next_from_stdin_tail(gn_result, disable_ok, raw_after_failure)
       IN  /\ stdin_result' = t.result
           /\ restore' = t.restore
           /\ raw' = t.raw
    /\ main_pc' = "process"
    /\ gn_pc' = "idle"
    /\ UNCHANGED <<outcome, congrats, congrats_moves>>
    /\ UNCHANGED <<reader, gn_item, gn_result, gn_consumed, input>>
    /\ UNCHANGED gameVars

\* the ? of main on an Err from get_next_from_stdin: main returns it
MainPropagate ==
    /\ main_pc = "process"
    /\ stdin_result \in {"Exit", "Other"}
    /\ outcome' = IF stdin_result = "Exit" THEN "ErrExit" ELSE "ErrOther"
    /\ main_pc' = "exited"
    /\ UNCHANGED <<raw, restore, stdin_result, congrats, congrats_moves>>
    /\ UNCHANGED gameVars
    /\ UNCHANGED readerVars

\* game.process_operation(op) on the Ok(op) from get_next_from_stdin
MainProcessOperation ==
    /\ main_pc = "process"
    /\ stdin_result \in Operations
    /\ GameProcessOperation(stdin_result)
    /\ main_pc' = "loop"
    /\ UNCHANGED <<raw, restore, stdin_result, outcome, congrats, congrats_moves>>

NextMain ==
    \/ \E a \in ShuffleOutcomes : MainGameNew(a)
    \/ \E item \in ReaderItems : StdinArrives(item)
    \/ MainLoopTop
    \/ \E enable_ok \in BOOLEAN : EnableRawMode(enable_ok)
    \/ MainGetNextRead
    \/ MainGetNextBody
    \/ \E disable_ok, raw_after_failure \in BOOLEAN :
          DisableRawMode(disable_ok, raw_after_failure)
    \/ MainPropagate
    \/ MainProcessOperation

SpecMain == InitMain /\ [][NextMain]_vars

----------------------------------------------------------------------------
(* Properties *)

\* a step that is a call of Game::process_operation
IsCall == calls' = calls + 1

Playing == pc = "play"

BlankCells == {i \in Cells : is_blank(array[i])}

Row(i) == i \div 4
Col(i) == i % 4

\* C1, as claimed: in every state of a game, if the game is Finished then the
\* board is solved.
C1_FinishedImpliesSolved == (Playing /\ is_done) => is_solved(array)

\* C1, amended: a game becomes Finished only in a process_operation call at
\* whose return the board is solved (later calls may move the board away
\* while the game stays Finished).
C1_FinishedOnlyWhenSolved ==
    [][(IsCall /\ ~is_done /\ is_done') => is_solved(array')]_vars

\* a game that an accepted slide has just finished
C1_Witness == Playing /\ is_done /\ is_solved(array) /\ last_ret /\ move_count = 1

\* C2, as claimed (the half of "exactly" that a run can refute): every
\* arrangement from which slides have reached the solved configuration is
\* accepted by the parity rule of is_solvable.
C2_SolvableIsAccepted ==
    (Playing /\ is_solved(array))
        => is_solvable(start_array, position_blank(start_array))

\* C3, as claimed: once the reader has reported its end, or a read error,
\* to get_next, get_next returns an I/O failure.
C3_ExhaustedReaderFails ==
    (gn_pc = "match" /\ gn_item.kind \in {"None", "Err"})
        ~> (gn_pc = "returned" /\ gn_result = "Other")

\* C4: Board::process_operation returns true if and only if the board
\* changed; when it returns false array and blank_idx are what they were.
C4_TrueIffChanged ==
    [][IsCall =>
        /\ last_ret' <=> (array' # array \/ blank_idx' # blank_idx)
        /\ ~last_ret' => (array' = array /\ blank_idx' = blank_idx)]_vars

\* the rejected Right of test_process_operation_right
C4_Witness ==
    /\ Playing /\ calls = 1 /\ last_op = "Right" /\ ~last_ret
    /\ array = TestArrayMiddle /\ blank_idx = 4

\* the slides the claim says are rejected, by the position of the blank
EdgeRejects(blank, operation) ==
    \/ operation = "Right" /\ Col(blank) = 0
    \/ operation = "Left" /\ Col(blank) = 3
    \/ operation = "Down" /\ Row(blank) = 0
    \/ operation = "Up" /\ Row(blank) = 3

\* C5: Board::process_operation rejects exactly Right in column 0, Left in
\* column 3, Down in row 0 and Up in row 3; an accepted Left or Right keeps
\* the blank in its row; in a corner exactly two operations are accepted.
C5_RejectsExactlyAtEdges ==
    /\ [][IsCall =>
            /\ ~last_ret' <=> EdgeRejects(blank_idx, last_op')
            /\ (last_ret' /\ last_op' \in {"Left", "Right"})
                   => Row(blank_idx') = Row(blank_idx)]_vars
    /\ [](Playing /\ blank_idx \in {0, 3, 12, 15} =>
            Cardinality({o \in Operations :
                Board_process_operation(array, blank_idx, o).ret}) = 2)

\* a Right rejected with the blank in column 0 of a row below the first
C5_Witness ==
    /\ Playing /\ calls > 0 /\ last_op = "Right" /\ ~last_ret
    /\ blank_idx = 12

\* C6: an accepted slide exchanges the blank with the cell at blank_idx +
\* offset (Up +4, Down -4, Left +1, Right -1), sets blank_idx to that index
\* and leaves the other 14 cells as they were.
C6_AcceptedSlideSwaps ==
    [][(IsCall /\ last_ret') =>
        LET offset == CASE last_op' = "Up" -> 4
                        [] last_op' = "Down" -> -4
                        [] last_op' = "Left" -> 1
                        [] last_op' = "Right" -> -1
            target == blank_idx + offset
        IN  /\ target \in Cells
            /\ blank_idx' = target
            /\ array'[target] = array[blank_idx]
            /\ array'[blank_idx] = array[target]
            /\ is_blank(array'[target])
            /\ \A i \in Cells \ {blank_idx, target} : array'[i] = array[i]]_vars

\* the result of test_process_operation_up
C6_Witness ==
    /\ Playing /\ calls = 1 /\ last_op = "Up" /\ last_ret
    /\ array = ArrayOf(<<1, 2, 3, 4, 9, 6, 7, 8, 0, 10, 11, 12, 13, 14, 15, 5>>)

\* C7: move_count is the number of process_operation calls that swapped.
C7_MoveCountCountsSwaps == Playing => (move_count = swaps /\ moves <= calls)

\* a finished game that went on: accepted and rejected calls on both sides
C7_Witness ==
    /\ Playing /\ is_done /\ ~is_solved(array)
    /\ move_count >= 2 /\ calls >= move_count + 2

\* C8: a call that leaves the board solved leaves the game Finished, also
\* when the board rejected the operation; on a board built solved the first
\* call does so with move_count still 0 when it is rejected.
C8_SolvedCheckEveryCall ==
    (Playing /\ calls > 0) =>
        /\ is_solved(array) => is_done
        /\ (is_solved(start_array) /\ calls = 1 /\ ~last_ret)
               => (is_done /\ move_count = 0)

\* test_is_done: a rejected Left on the solved board
C8_Witness ==
    /\ Playing /\ start_array = SolvedArray /\ calls = 1 /\ last_op = "Left"
    /\ ~last_ret /\ is_done /\ move_count = 0

\* C9: once is_done() is true it stays true.
C9_DoneIsMonotonic == [][is_done => is_done']_vars

\* a finished game whose board has left the solved configuration
C9_Witness == Playing /\ is_done /\ ~is_solved(array) /\ last_ret

\* C10: exactly one cell is blank and blank_idx is its index.
C10_OneBlankAtBlankIdx ==
    Playing => (Cardinality(BlankCells) = 1 /\ is_blank(array[blank_idx]))

\* a board whose blank has moved twice
C10_Witness ==
    /\ Playing /\ swaps >= 2
    /\ blank_idx # position_blank(start_array)

\* C11: the cells carry every solved position 0..15 exactly once, whatever
\* operations were accepted or rejected.
C11_TilesConserved ==
    Playing =>
        \A p \in Cells : Cardinality({i \in Cells : get_solved_pos(array[i]) = p}) = 1

\* a board that has seen accepted and rejected operations
C11_Witness == Playing /\ calls >= 3 /\ swaps >= 1 /\ swaps < calls

\* C14, as claimed: 'd' pressed with the blank in column 3 changes neither
\* the board nor the move counter.
C14_DAtRightEdgeIsNoOp ==
    [][(IsCall /\ last_op' = from_code(CharD) /\ Col(blank_idx) = 3) =>
        /\ ~last_ret'
        /\ array' = array /\ blank_idx' = blank_idx
        /\ move_count' = move_count]_vars

\* C14, amended: 'd' pressed with the blank in column 0 (the left edge)
\* changes neither the board nor the move counter.
C14_DAtLeftEdgeIsNoOp ==
    [][(IsCall /\ last_op' = from_code(CharD) /\ Col(blank_idx) = 0) =>
        /\ ~last_ret'
        /\ array' = array /\ blank_idx' = blank_idx
        /\ move_count' = move_count]_vars

\* 'd' rejected with the blank at the left edge of the third row
C14_Witness ==
    /\ Playing /\ calls = 1 /\ last_op = from_code(CharD) /\ ~last_ret
    /\ blank_idx = 8 /\ array = start_array /\ move_count = 0

\* C16, as claimed: an accepted slide from an arrangement is_solvable
\* accepts leads to an arrangement is_solvable accepts.
C16_ParityConserved ==
    [][(IsCall /\ last_ret' /\ is_solvable(array, blank_idx))
          => is_solvable(array', blank_idx')]_vars

\* C17: a game starts InProgress with move_count 0, whatever its board.
C17_NewGameInProgress == (Playing /\ calls = 0) => (~is_done /\ moves = 0)

\* a new game on a solved board
C17_Witness == Playing /\ calls = 0 /\ is_solved(array) /\ ~is_done

Opposite(operation) ==
    CASE operation = "Up" -> "Down"
      [] operation = "Down" -> "Up"
      [] operation = "Left" -> "Right"
      [] operation = "Right" -> "Left"

\* C20: after an accepted operation the opposite operation is accepted,
\* restores array and blank_idx, and leaves move_count two higher.
C20_SlidesAreReversible ==
    Playing =>
        \A operation \in Operations :
            LET g1 == Game_process_operation(array, blank_idx, current_state,
                                             move_count, operation)
                g2 == Game_process_operation(g1.array, g1.blank_idx, g1.current_state,
                                             g1.move_count, Opposite(operation))
            IN  g1.ret =>
                    /\ g2.ret
                    /\ g2.array = array
                    /\ g2.blank_idx = blank_idx
                    /\ g2.move_count = move_count + 2

\* a game in which an Up and then a Down were accepted
C20_Witness ==
    /\ Playing /\ calls = 2 /\ move_count = 2 /\ last_op = "Down" /\ last_ret
    /\ array = start_array /\ blank_idx = position_blank(start_array)

\* C18: under a fair shuffle the loop of Board::new ends, with an
\* arrangement that is_solvable accepts.
C18_BoardNewTerminates ==
    /\ <>Playing
    /\ [](Playing => is_solvable(start_array, position_blank(start_array)))

\* Board::new has returned an arrangement other than the solved one
C18_Witness ==
    /\ Playing /\ calls = 0 /\ start_array # SolvedArray
    /\ is_solvable(array, blank_idx)

\* the bytes that decide the result of get_next
Deciding(item) ==
    item.kind = "Ok" /\ item.byte \in {CtrlC, CharW, CharA, CharS, CharD}

\* C12: get_next returns on the first item that is the byte 0x03 or one of
\* 'w', 'a', 's', 'd', with Exit or the operation of that byte; the items
\* before it leave no trace and no item after it is taken from the reader.
C12_FirstDecidingByte ==
    /\ gn_pc \in {"read", "match"} =>
          /\ gn_result = "none"
          /\ \A j \in 1 .. gn_consumed :
                Deciding(input[j]) => (j = gn_consumed /\ gn_pc = "match")
    /\ gn_pc = "returned" =>
          /\ gn_consumed >= 1
          /\ Deciding(input[gn_consumed])
          /\ \A j \in 1 .. (gn_consumed - 1) : ~Deciding(input[j])
          /\ gn_result = (CASE input[gn_consumed].byte = CtrlC -> "Exit"
                            [] input[gn_consumed].byte = CharW -> "Up"
                            [] input[gn_consumed].byte = CharA -> "Left"
                            [] input[gn_consumed].byte = CharS -> "Down"
                            [] input[gn_consumed].byte = CharD -> "Right")
          /\ reader = SubSeq(input, gn_consumed + 1, Len(input))

\* ';' discarded, 'a' gives Left, the byte after it stays in the reader
C12_Witness ==
    /\ gn_pc = "returned" /\ gn_result = "Left" /\ gn_consumed = 2
    /\ input = <<SomeOk(CharSemicolon), SomeOk(CharA), SomeOk(CharW)>>
    /\ reader = <<SomeOk(CharW)>>

\* the program is not inside the read of get_next_from_stdin
OutsideRead == main_pc \in {"loop", "enable", "process", "exited"}

\* C13, as claimed: outside a read, a restore of cooked mode has been
\* attempted for every raw mode entered, and the terminal is not in raw mode.
C13_NeverLeftRaw == OutsideRead => (restore # "pending" /\ ~raw)

\* C13, amended: outside a read, a restore of cooked mode has been attempted
\* for every raw mode entered, and the terminal is in raw mode only if that
\* attempt failed, which get_next_from_stdin returns as the error.
C13_RestoreAttempted ==
    OutsideRead =>
        /\ restore # "pending"
        /\ raw => (restore = "failed" /\ stdin_result = "Other")

\* the Exit path: Ctrl-C read in raw mode, cooked mode restored, Exit returned
C13_Witness ==
    /\ main_pc = "process" /\ stdin_result = "Exit"
    /\ restore = "ok" /\ ~raw

\* C15, as claimed: the exit code is 0 exactly when the puzzle was completed
\* or the user exited with Ctrl-C; an I/O failure gives a nonzero code.
C15_ExitCodes ==
    main_pc = "exited" =>
        (ExitCode(outcome) = 0 <=> outcome \in {"Ok", "ErrExit"})

\* C19: in main, a done game is only looked at by the head of the loop; the
\* congratulation is printed on a solved board with the number of accepted
\* slides; main ends by completion, by Exit or by an error.
C19_MainStopsWhenDone ==
    /\ is_done => main_pc \in {"loop", "exited"}
    /\ congrats => (is_solved(array) /\ congrats_moves = swaps /\ outcome = "Ok")
    /\ main_pc = "exited" =>
          /\ outcome \in {"Ok", "ErrExit", "ErrOther"}
          /\ outcome = "Ok" <=> (congrats /\ is_done)
          /\ outcome = "ErrExit" <=> stdin_result = "Exit"
          /\ outcome = "ErrOther" <=> stdin_result = "Other"
    /\ main_pc # "exited" => (outcome = "running" /\ ~congrats)

\* the congratulation after a game that took accepted slides
C19_Witness ==
    /\ main_pc = "exited" /\ congrats /\ congrats_moves >= 1
    /\ is_solved(array) /\ calls >= 1

====
